---- MODULE Spec2Model ----
(***************************************************************************)
(* Smart Data Visualizer (src/main.py): a reactive script that is re-run    *)
(* from top to bottom on every user interaction.  One run loads the         *)
(* uploaded file through a cached loader, shows a preview and an overview,  *)
(* draws one of six charts, offers it as a download and lists the strongest *)
(* correlations.  A run is one atomic step: the script is single-threaded   *)
(* and nothing interleaves with it.                                         *)
(*                                                                          *)
(* Abstractions.  A column is named by its position in the table and typed  *)
(* "num", "text" or "time".  The data of the numeric columns is kept only   *)
(* as far as the script reads it: which columns have zero variance, and     *)
(* the magnitude of each pairwise correlation as a level 0..MaxLevel, with  *)
(* Top for exactly 1.0 and NaN for an undefined coefficient.  A file name   *)
(* is kept as its suffix.  None is 0 for a column and <<>> for an object.   *)
(* The versions of the libraries are not fixed by the source: where they    *)
(* differ in what a call does, the call has a set of outcomes and each run  *)
(* takes any of them (Missing, HeatmapColumns, Ties).                       *)
(***************************************************************************)
EXTENDS Integers, Sequences, FiniteSets, TLC

VARIABLES files, uploaded_file, cache, parse_calls, parser, hit, df,
          chart_type, x, y, column, fed, chart, buf, panels, top_corr, error

vars == <<files, uploaded_file, cache, parse_calls, parser, hit, df,
          chart_type, x, y, column, fed, chart, buf, panels, top_corr, error>>

(* ------------------------------ bounds --------------------------------- *)

\* columns of a table in the chart sessions
MaxCols == 2
\* correlation levels below 1.0 in the chart sessions: 0..PlotLevel
PlotLevel == 0
\* numeric columns of a table in the insight sessions
MaxNumeric == 3
\* correlation levels below 1.0 in the insight sessions: 0..MaxLevel
MaxLevel == 1
\* files a user has at hand in the loader sessions
MaxFiles == 2
\* parse calls counted per file (a file that fails to parse is parsed again
\* on every run, without end)
MaxParse == 2

(* ------------------------------ values --------------------------------- *)

None == 0
NaN == -1
ColTypes == {"num", "text", "time"}
Suffixes == {".csv", ".xlsx", ".CSV", ".txt"}
Formats == {"csv", "xlsx"}
ChartTypes == <<"Scatter Plot", "Line Chart", "Histogram", "Box Plot",
                "Correlation Heatmap", "Count Plot">>
ChartKinds == {ChartTypes[i] : i \in 1..Len(ChartTypes)}

Min(a, b) == IF a <= b THEN a ELSE b
Max(a, b) == IF a >= b THEN a ELSE b

\* the sequence s with its elements worked out once
Listed(s) == SubSeq(s, 1, Len(s))

\* the elements of s at the positions in I, in the order of s
RECURSIVE Keep(_, _, _)
Keep(s, I, i) ==
    IF i > Len(s) THEN <<>>
    ELSE (IF i \in I THEN <<s[i]>> ELSE <<>>) \o Keep(s, I, i + 1)

(* ------------------------------ tables --------------------------------- *)

\* 1.0 on the scale of levels 0..lv
Top(lv) == lv + 1

NumericPositions(types) == {i \in 1..Len(types) : types[i] = "num"}

Pairs(S) == {p \in S \X S : p[1] < p[2]}

\* a perfectly correlated pair of columns correlates alike with any third
Coherent(S, r, top) ==
    \A a \in S, b \in S, c \in S :
        (a < b /\ c # a /\ c # b /\ r[<<a, b>>] = top)
            => r[<<Min(a, c), Max(a, c)>>] = r[<<Min(b, c), Max(b, c)>>]

\* the tables of up to n columns typed in T, with correlation levels 0..lv;
\* degenerate: zero-variance columns and perfectly correlated pairs too
Tables(T, n, lv, degenerate) ==
    UNION {
      UNION {
        UNION {
          {[types |-> ty, const |-> cs, r |-> r, top |-> Top(lv)] :
             r \in {q \in [Pairs(NumericPositions(ty) \ cs)
                            -> 0..(IF degenerate THEN Top(lv) ELSE lv)] :
                      Coherent(NumericPositions(ty) \ cs, q, Top(lv))}}
          : cs \in IF degenerate THEN SUBSET NumericPositions(ty) ELSE {{}}}
        : ty \in [1..k -> T]}
      : k \in 0..n}

\* |df[cols].corr()| at (a, b)
AbsCorr(t, a, b) ==
    IF a \in t.const \/ b \in t.const THEN NaN
    ELSE IF a = b THEN t.top
    ELSE t.r[<<Min(a, b), Max(a, b)>>]

FilesOf(tables) == [name : Suffixes, format : Formats, table : tables]

(* ------------------------------ upload --------------------------------- *)

\* str.lower() on the suffixes modelled
Lower(name) == IF name = ".CSV" THEN ".csv" ELSE name

\* the extensions the uploader is given: type=["csv", "xlsx"]
UploaderTypes == {".csv", ".xlsx"}

\* st.sidebar.file_uploader(..., type=["csv", "xlsx"]): the widget compares
\* the lower-cased file name with the extensions it is given
Accepted(name) == Lower(name) \in UploaderTypes

(* ------------------------------ load_data ------------------------------ *)

\* uploaded_file.name.endswith(suffix): an exact, case-sensitive match
EndsWith(name, suffix) == name = suffix

\* the branch load_data takes
ParserFor(name) ==
    IF EndsWith(name, ".csv") THEN "read_csv" ELSE "read_excel"

\* pd.read_csv / pd.read_excel return a table on content of their own format
\* and raise on the other
Parses(p, format) ==
    \/ p = "read_csv" /\ format = "csv"
    \/ p = "read_excel" /\ format = "xlsx"

CacheHit_Never(c, f) == FALSE

\* @st.cache_data: the body runs only for an argument with no stored result
CacheHit(c, f) == f \in DOMAIN c

\* @st.cache_data: the returned table is stored under the argument; a call
\* that raises stores nothing
CacheStore(c, f, t) == (f :> t) @@ c

\* df = load_data(uploaded_file)
load_data(c, f) ==
    IF CacheHit(c, f)
    THEN [hit |-> TRUE, parser |-> "none", ok |-> TRUE, df |-> <<c[f]>>, cache |-> c]
    ELSE LET p == ParserFor(f.name) IN
         IF Parses(p, f.format)
         THEN [hit |-> FALSE, parser |-> p, ok |-> TRUE, df |-> <<f.table>>,
               cache |-> CacheStore(c, f, f.table)]
         ELSE [hit |-> FALSE, parser |-> p, ok |-> FALSE, df |-> <<>>, cache |-> c]

(* ------------------------------ selectors ------------------------------ *)

all_cols(t) == [i \in 1..Len(t.types) |-> i]

numeric_cols_All(t) == all_cols(t)

\* df.select_dtypes(include=np.number).columns.tolist()
numeric_cols(t) == Keep(all_cols(t), NumericPositions(t.types), 1)

\* st.selectbox(label, options) with the user's choice at index pick: the
\* chosen option, or None when there is nothing to choose from
selectbox(options, pick) ==
    IF Len(options) = 0 THEN None ELSE options[pick]

Picks(options) == 1..Max(1, Len(options))

\* the options of the first and of the second selector of a chart type
\* (<<>> also where the chart type shows no such selector)
FirstOptions(kind, t) ==
    CASE kind = "Scatter Plot" -> numeric_cols(t)
      [] kind = "Line Chart" -> all_cols(t)
      [] kind = "Histogram" -> numeric_cols(t)
      [] kind = "Box Plot" -> numeric_cols(t)
      [] kind = "Count Plot" -> all_cols(t)
      [] OTHER -> <<>>

SecondOptions(kind, t) ==
    CASE kind = "Scatter Plot" -> numeric_cols(t)
      [] kind = "Line Chart" -> numeric_cols(t)
      [] OTHER -> <<>>

TwoAxes(kind) == kind \in {"Scatter Plot", "Line Chart"}
OneColumn(kind) == kind \in {"Histogram", "Box Plot", "Count Plot"}

\* the index of value v in options (1 when there is none)
IndexOf(options, v) ==
    IF \E i \in 1..Len(options) : options[i] = v
    THEN CHOOSE i \in 1..Len(options) : options[i] = v
    ELSE 1

(* ------------------------------ charts --------------------------------- *)

\* a plotting call that is handed None for a column, or an empty matrix:
\* depending on the installed plotting library it leaves the axes blank or
\* raises
Missing ==
    {[chart |-> "blank", error |-> "none"], [chart |-> "none", error |-> "PlotError"]}

Drawn == {[chart |-> "drawn", error |-> "none"]}

Raised(e) == {[chart |-> "none", error |-> e]}

\* the columns df.corr() correlates: every column of df, or only its numeric
\* ones where the installed pandas still defaults to numeric_only (before 2.0)
HeatmapColumns(t) == {all_cols(t), numeric_cols(t)}

\* the chart-type dispatch, given the values the selectors returned and, for
\* the heatmap, the columns correlated: the outcomes of the plotting call
Plot(t, kind, sx, sy, sc, cols) ==
    CASE kind = "Scatter Plot" ->
            IF sx = None \/ sy = None THEN Missing ELSE Drawn
      [] kind = "Line Chart" ->
            IF sx = None \/ sy = None THEN Missing ELSE Drawn
      [] kind = "Histogram" ->
            \* df[column] with column None: no such key
            IF sc = None THEN Raised("KeyError") ELSE Drawn
      [] kind = "Box Plot" ->
            IF sc = None THEN Missing ELSE Drawn
      [] kind = "Count Plot" ->
            IF sc = None THEN Missing ELSE Drawn
      [] OTHER ->
            \* df.corr() cannot turn a text or a date into a float
            IF \E i \in 1..Len(cols) : t.types[cols[i]] # "num"
            THEN Raised("ValueError")
            ELSE IF Len(cols) = 0 THEN Missing ELSE Drawn

(* ------------------------------ insights ------------------------------- *)

\* head(5)
HeadN == 5

\* corr_matrix.abs().unstack(): one entry per (column, row) of the matrix,
\* column by column
unstack(t, nc) ==
    Listed([i \in 1..(Len(nc) * Len(nc)) |->
        LET a == nc[((i - 1) \div Len(nc)) + 1]
            b == nc[((i - 1) % Len(nc)) + 1]
        IN  [a |-> a, b |-> b, v |-> AbsCorr(t, a, b)]])

\* the orders a sort may leave equal values in: numpy's default sort is not
\* stable, and which entry of a tie comes first depends on the build
Ties == {"stable", "reversed"}

\* entry i comes before entry j in a descending sort: the larger value first,
\* NaN last
Before(s, i, j, tie) ==
    \/ s[i].v > s[j].v
    \/ s[i].v = s[j].v /\ (IF tie = "stable" THEN i < j ELSE i > j)

\* .sort_values(ascending=False)
sort_values(s, tie) ==
    LET n == Len(s)
        \* how many entries come before entry i
        rank == Listed([i \in 1..n |->
                    Cardinality({j \in 1..n : Before(s, j, i, tie)})])
    IN  Listed([p \in 1..n |-> s[CHOOSE i \in 1..n : rank[i] = p - 1]])

drop_duplicates_Off(s) == s

\* .drop_duplicates() on a Series: of the entries with one value, the first
drop_duplicates(s) ==
    Keep(s, {i \in 1..Len(s) : \A j \in 1..(i - 1) : s[j].v # s[i].v}, 1)

\* .head(n)
head(s, n) == SubSeq(s, 1, Min(n, Len(s)))

\* the AUTO INSIGHTS block
TopCorr(t, tie) ==
    head(drop_duplicates(sort_values(unstack(t, numeric_cols(t)), tie)), HeadN)

(* ------------------------------ the script ----------------------------- *)

Panels == {"preview", "overview", "visualization", "insights"}

\* one run of the script's `if uploaded_file:` branch on file f, with the
\* chart type and the selector choices the widgets hold
RunScript(f, kind, p1, p2) ==
    LET L == load_data(cache, f) IN
    /\ uploaded_file' = <<f>>
    /\ cache' = L.cache
    /\ parse_calls' = IF L.hit THEN parse_calls
                      ELSE [parse_calls EXCEPT ![f] = @ + 1]
    /\ parser' = L.parser
    /\ hit' = L.hit
    /\ df' = L.df
    /\ IF ~L.ok
       THEN \* the exception of the parser ends the run
            /\ chart_type' = "none"
            /\ x' = None /\ y' = None /\ column' = None
            /\ fed' = <<>>
            /\ chart' = "none"
            /\ buf' = FALSE
            /\ panels' = {}
            /\ top_corr' = <<>>
            /\ error' = "ParseError"
       ELSE LET t == L.df[1]
                sx == IF TwoAxes(kind) THEN selectbox(FirstOptions(kind, t), p1) ELSE None
                sy == IF TwoAxes(kind) THEN selectbox(SecondOptions(kind, t), p2) ELSE None
                sc == IF OneColumn(kind) THEN selectbox(FirstOptions(kind, t), p1) ELSE None
            IN  /\ chart_type' = kind
                /\ x' = sx /\ y' = sy /\ column' = sc
                /\ fed' \in IF kind = "Correlation Heatmap"
                            THEN HeatmapColumns(t) ELSE {<<>>}
                /\ \E P \in Plot(t, kind, sx, sy, sc, fed') :
                      /\ chart' = P.chart
                      /\ error' = P.error
                /\ IF error' = "none"
                   THEN /\ buf' = TRUE
                        /\ panels' = Panels
                        /\ top_corr' \in IF Len(numeric_cols(t)) >= 2
                                         THEN {TopCorr(t, tie) : tie \in Ties}
                                         ELSE {<<>>}
                   ELSE \* the exception of the chart ends the run
                        /\ buf' = FALSE
                        /\ panels' = {"preview", "overview"}
                        /\ top_corr' = <<>>
    /\ UNCHANGED files

\* a run on f would not count a parse call beyond the bound
Countable(f) == CacheHit(cache, f) \/ parse_calls[f] < MaxParse

\* the chart type the selectbox holds: its first option until it was shown
HeldChartType == IF chart_type = "none" THEN ChartTypes[1] ELSE chart_type

\* the user uploads a file the uploader accepts; the new selectors start at
\* their first option
Upload(f) ==
    /\ f \in files
    /\ Accepted(f.name)
    /\ uploaded_file # <<f>>
    /\ Countable(f)
    /\ RunScript(f, HeldChartType, 1, 1)

\* the user removes the file: the `else:` branch shows the hint only
ClearFile ==
    /\ uploaded_file # <<>>
    /\ uploaded_file' = <<>>
    /\ parser' = "none"
    /\ hit' = FALSE
    /\ df' = <<>>
    /\ chart_type' = "none"
    /\ x' = None /\ y' = None /\ column' = None
    /\ fed' = <<>>
    /\ chart' = "none"
    /\ buf' = FALSE
    /\ panels' = {}
    /\ top_corr' = <<>>
    /\ error' = "none"
    /\ UNCHANGED <<files, cache, parse_calls>>

\* the user picks another chart type
SelectChartType(kind) ==
    /\ uploaded_file # <<>>
    /\ chart_type # "none"
    /\ kind \in ChartKinds
    /\ kind # chart_type
    /\ RunScript(uploaded_file[1], kind, 1, 1)

\* the user picks another option in a selector of the chart type shown
SelectColumns(p1, p2) ==
    /\ uploaded_file # <<>>
    /\ chart_type # "none"
    /\ p1 \in Picks(FirstOptions(chart_type, df[1]))
    /\ p2 \in Picks(SecondOptions(chart_type, df[1]))
    /\ <<selectbox(FirstOptions(chart_type, df[1]), p1),
         selectbox(SecondOptions(chart_type, df[1]), p2)>>
         # <<IF TwoAxes(chart_type) THEN x ELSE column, y>>
    /\ RunScript(uploaded_file[1], chart_type, p1, p2)

\* the user reruns the page as it is
Rerun ==
    /\ uploaded_file # <<>>
    /\ Countable(uploaded_file[1])
    /\ LET p1 == IF chart_type = "none" THEN 1
                 ELSE IndexOf(FirstOptions(chart_type, df[1]),
                              IF TwoAxes(chart_type) THEN x ELSE column)
           p2 == IF chart_type = "none" THEN 1
                 ELSE IndexOf(SecondOptions(chart_type, df[1]), y)
       IN  RunScript(uploaded_file[1], HeldChartType, p1, p2)

\* the state before any upload, with the files the user has at hand
Start(catalogue) ==
    /\ files \in catalogue
    /\ uploaded_file = <<>>
    /\ cache = <<>>
    /\ parse_calls = [f \in files |-> 0]
    /\ parser = "none"
    /\ hit = FALSE
    /\ df = <<>>
    /\ chart_type = "none"
    /\ x = None /\ y = None /\ column = None
    /\ fed = <<>>
    /\ chart = "none"
    /\ buf = FALSE
    /\ panels = {}
    /\ top_corr = <<>>
    /\ error = "none"

\* the sets of 1..n elements of S
RECURSIVE SetsUpTo(_, _)
SetsUpTo(S, n) ==
    IF n = 0 THEN {{}}
    ELSE LET P == SetsUpTo(S, n - 1) IN P \cup {p \cup {e} : p \in P, e \in S}

\* chart sessions: one file, any name and format, any column types
Init ==
    Start({{f} : f \in FilesOf(Tables(ColTypes, MaxCols, PlotLevel, FALSE))})

Next ==
    \/ \E f \in files : Upload(f)
    \/ ClearFile
    \/ \E kind \in ChartKinds : SelectChartType(kind)
    \/ \E p1 \in 1..MaxCols, p2 \in 1..MaxCols : SelectColumns(p1, p2)
    \/ Rerun

Spec == Init /\ [][Next]_vars

\* loader sessions: several files, told apart by name, format and one column
InitLoader ==
    Start(SetsUpTo(FilesOf(Tables(ColTypes, 1, PlotLevel, FALSE)), MaxFiles) \ {{}})

Browse ==
    \/ \E f \in files : Upload(f)
    \/ ClearFile
    \/ Rerun

LoaderSpec == InitLoader /\ [][Browse]_vars

\* insight sessions: one well-formed file of two or more numeric columns, with
\* every pattern of correlation levels, ties and zero-variance columns
InitInsight ==
    Start({{f} : f \in [name : {".csv"}, format : {"csv"},
                        table : {t \in Tables({"num"}, MaxNumeric, MaxLevel, TRUE) :
                                    Len(t.types) >= 2}]})

InsightSpec == InitInsight /\ [][Browse]_vars

(* ------------------------------ claims --------------------------------- *)

Loaded == df # <<>>

\* the table loaded has no zero-variance column: every coefficient is defined
Varied == Loaded /\ df[1].const = {}

\* C1: the insight report holds no self-pair, no entry that pairs a column
\* with itself.  Stated for the tables whose numeric columns all vary.
C1_NoSelfPair ==
    Varied => \A i \in 1..Len(top_corr) : top_corr[i].a # top_corr[i].b

\* C2: the insight report holds no unordered pair twice: with (A, B) in the
\* report, neither (B, A) nor a second (A, B) is.
C2_NoMirroredPair ==
    \A i \in 1..Len(top_corr), j \in 1..Len(top_corr) :
        i # j => {top_corr[i].a, top_corr[i].b} # {top_corr[j].a, top_corr[j].b}

\* a report of three entries with a pair of two different columns in it
C2_Witness ==
    /\ Len(top_corr) >= 3
    /\ \E i \in 1..Len(top_corr) : top_corr[i].a # top_corr[i].b

\* C3, as claimed: within a session a file of a given identity is parsed at
\* most once.
C3_ParsedAtMostOnce ==
    \A f \in files : parse_calls[f] <= 1

\* C3, amended: once a file was parsed into a table, no run parses it again;
\* every later request for it is a cache hit that calls no parser and returns
\* the table first parsed.
C3_CachedNotReparsed ==
    [][\A f \in DOMAIN cache :
          /\ parse_calls'[f] = parse_calls[f]
          /\ f \in DOMAIN cache' /\ cache'[f] = cache[f]
          /\ uploaded_file' = <<f>> =>
                hit' /\ parser' = "none" /\ df' = <<cache[f]>>]_vars

\* a request served from the cache while the tables of two files are stored
C3_Witness ==
    /\ hit
    /\ Cardinality(DOMAIN cache) >= 2
    /\ parse_calls[uploaded_file[1]] = 1

\* C4: a run in which the chart fails (the selected column is missing, or
\* the correlation of the heatmap cannot be computed) still renders every
\* other panel, the insights panel after it in particular.
C4_PanelsIndependent ==
    error \in {"KeyError", "ValueError"} =>
        {"preview", "overview", "insights"} \subseteq panels

\* C5: on a table with exactly one numeric column, Scatter and Heatmap end
\* without an error, and Histogram and Box draw that column.
C5_OneNumericColumn ==
    (Loaded /\ Cardinality(NumericPositions(df[1].types)) = 1) =>
        /\ chart_type \in {"Scatter Plot", "Correlation Heatmap"} => error = "none"
        /\ chart_type \in {"Histogram", "Box Plot"} => chart = "drawn" /\ error = "none"

\* C6: Histogram, whose selector has no option on a table without a numeric
\* column and returns no selection, still ends the run with a chart and a
\* download buffer, not with an error.
C6_HistogramWithoutColumn ==
    (Loaded /\ chart_type = "Histogram" /\ column = None) =>
        error = "none" /\ chart # "none" /\ buf

\* C7: the columns the heatmap correlates are exactly the numeric columns of
\* the table.
C7_HeatmapOverNumeric ==
    (Loaded /\ chart_type = "Correlation Heatmap") =>
        {fed[i] : i \in 1..Len(fed)} = NumericPositions(df[1].types)

IsColumn(c) == Loaded /\ c \in 1..Len(df[1].types)
IsNumeric(c) == IsColumn(c) /\ df[1].types[c] = "num"
NoSelection == x = None /\ y = None /\ column = None

\* C8, as claimed: every chart formed has its slots filled as its kind
\* requires: Scatter two numeric columns, Line any column and a numeric one,
\* Histogram and Box one numeric column, Count one column, Heatmap none.
C8_SlotsFilled ==
    (Loaded /\ chart_type # "none") =>
        CASE chart_type = "Scatter Plot" -> IsNumeric(x) /\ IsNumeric(y)
          [] chart_type = "Line Chart" -> IsColumn(x) /\ IsNumeric(y)
          [] chart_type \in {"Histogram", "Box Plot"} -> IsNumeric(column)
          [] chart_type = "Count Plot" -> IsColumn(column)
          [] OTHER -> NoSelection

\* C8, amended: a slot holds a column its kind allows, or nothing when the
\* table has no such column; a numeric-only slot never holds a column that
\* is not numeric, and a chart type's unused slots stay empty.
C8_SlotsValidOrEmpty ==
    LET numeric(c) == IF NumericPositions(df[1].types) = {}
                      THEN c = None ELSE IsNumeric(c)
        any(c) == IF Len(df[1].types) = 0 THEN c = None ELSE IsColumn(c)
    IN  (Loaded /\ chart_type # "none") =>
            CASE chart_type = "Scatter Plot" ->
                    numeric(x) /\ numeric(y) /\ column = None
              [] chart_type = "Line Chart" ->
                    any(x) /\ numeric(y) /\ column = None
              [] chart_type \in {"Histogram", "Box Plot"} ->
                    numeric(column) /\ x = None /\ y = None
              [] chart_type = "Count Plot" ->
                    any(column) /\ x = None /\ y = None
              [] OTHER -> NoSelection

\* a line chart of a numeric column over a text column: the any-type slot
\* holds a column that the numeric-only slot beside it was never offered
C8_Witness ==
    /\ Loaded
    /\ chart_type = "Line Chart"
    /\ IsColumn(x) /\ df[1].types[x] = "text"
    /\ IsNumeric(y)

\* C9: an accepted upload is parsed by the parser of its extension: the text
\* parser for an upload the uploader took as csv, the spreadsheet parser for
\* one it took as xlsx.
C9_ParserMatchesExtension ==
    (uploaded_file # <<>> /\ parser # "none") =>
        parser = IF Lower(uploaded_file[1].name) = ".csv"
                 THEN "read_csv" ELSE "read_excel"

\* C10: on a table of k >= 2 numeric columns the report lists exactly
\* min(5, k*(k-1)/2) entries.  Stated for the tables whose numeric columns
\* all vary.
C10_ReportSize ==
    LET k == Cardinality(NumericPositions(df[1].types)) IN
    (Varied /\ "insights" \in panels /\ k >= 2) =>
        Len(top_corr) = Min(HeadN, (k * (k - 1)) \div 2)

====
